---- MODULE Spec2Model ----
(***************************************************************************)
(* Decline-rebound signal detector (factors/decline_rebound.py) with the   *)
(* ATR threshold normaliser (backtest/indicators.py).                      *)
(*                                                                         *)
(* Numbers.  Closes are integers.  An ATR value is an integer in units of   *)
(* 1e-4 (0.01 is 100, 0.02 is 200) or NaN.  The code's ratios are kept as  *)
(* exact fractions [n, d] with d >= 0 (d = 0 is the float result of a      *)
(* division by zero: inf, -inf or, for 0 / 0, NaN), and a threshold, which *)
(* is a base fraction times a square root, is kept as sgn * sqrt(n / d),   *)
(* with d = 0 for NaN; every comparison of the code is decided exactly     *)
(* from signs and squares.  Positions are the code's 0-based iloc          *)
(* positions.                                                              *)
(***************************************************************************)
EXTENDS Integers, Sequences, FiniteSets, TLC

\* ---------------------------------------------------------------- bounds
MaxLen == 5
MaxLookback == 3
MaxTraceLen == 4
MaxCallLen == 4
MaxSeriesLen == 3

\* ---------------------------------------------------------------- inputs
Prices == {188, 200, 201}
NaN == -1
AtrValues == {150, 300}
AtrDay == AtrValues \cup {NaN}

ExampleClose == <<100, 99, 98, 90, 91, 95>>
ExampleAtr == {100, 150, 200}

\* ------------------------------------------------------- pandas accessors
iloc(s, k) == s[k + 1]
\* mutant: the test written "x == np.nan", which is False for every x
isna_eq(x) == FALSE
isna(x) == x = NaN
Positions(s) == 0 .. (Len(s) - 1)

\* ------------------------------------------------------------- arithmetic
Sign(x) == IF x < 0 THEN -1 ELSE IF x > 0 THEN 1 ELSE 0

RECURSIVE Gcd(_, _)
Gcd(a, b) == IF b = 0 THEN a ELSE Gcd(b, a % b)

\* a / b in float64 for integers a and b: b = 0 gives inf, -inf or NaN
Ratio(a, b) == IF b < 0 THEN [n |-> -a, d |-> -b] ELSE [n |-> a, d |-> b]
IsNaNRatio(q) == q.n = 0 /\ q.d = 0

\* the float NaN as a surd
NaNSurd == [sgn |-> 0, n |-> 0, d |-> 0]
IsNaNSurd(s) == s.d = 0

\* sgn * sqrt(n / d), in lowest terms
Surd(sgn, n, d) ==
    LET g == Gcd(n, d)
    IN  IF n = 0 THEN [sgn |-> 0, n |-> 0, d |-> 1]
        ELSE [sgn |-> sgn, n |-> n \div g, d |-> d \div g]

\* np.sqrt(a / b) for a >= 0, b > 0
SqrtOf(a, b) == Surd(1, a, b)

\* r * s for a fraction r and a surd s; NaN propagates
Times(r, s) ==
    IF IsNaNSurd(s) THEN NaNSurd
    ELSE Surd(Sign(r.n) * s.sgn, r.n * r.n * s.n, r.d * r.d * s.d)

\* q >= s and q <= s for a fraction q and a surd s; False when either is NaN
RatGe(q, s) ==
    /\ ~IsNaNRatio(q) /\ ~IsNaNSurd(s)
    /\ IF s.sgn >= 0
       THEN q.n >= 0 /\ q.n * q.n * s.d >= s.n * q.d * q.d
       ELSE q.n >= 0 \/ q.n * q.n * s.d <= s.n * q.d * q.d
RatLe(q, s) ==
    /\ ~IsNaNRatio(q) /\ ~IsNaNSurd(s)
    /\ IF s.sgn <= 0
       THEN q.n <= 0 /\ q.n * q.n * s.d >= s.n * q.d * q.d
       ELSE q.n <= 0 \/ q.n * q.n * s.d <= s.n * q.d * q.d

Max3(a, b, c) ==
    IF a >= b /\ a >= c THEN a ELSE IF b >= c THEN b ELSE c

\* ------------------------------------------------ backtest/indicators.py
AtrLow == 100
AtrHigh == 200
BaseDecline == Ratio(-1, 20)
BaseRebound == Ratio(1, 200)
\* decline_rebound.py line 157: window=60
AtrWindow == 60

\* float comparisons: one with NaN is False
FLt(x, y) == x # NaN /\ y # NaN /\ x < y
FGt(x, y) == x # NaN /\ y # NaN /\ x > y

\* mutant: both square roots divide by 0.01
CorrectionOneDivisor(a) ==
    IF FLt(a, AtrLow) \/ FGt(a, AtrHigh) THEN SqrtOf(a, AtrLow)
    ELSE SqrtOf(1, 1)

\* lines 101-108, the scalar branch
get_atr_correction_factor(a) ==
    IF FLt(a, AtrLow) THEN SqrtOf(a, AtrLow)
    ELSE IF FGt(a, AtrHigh) THEN SqrtOf(a, AtrHigh)
    ELSE SqrtOf(1, 1)

\* mutant: the two bases exchanged
ThresholdsSwapped(a) ==
    LET correction == get_atr_correction_factor(a)
    IN  [decline |-> Times(BaseRebound, correction),
         rebound |-> Times(BaseDecline, correction)]

\* lines 111-130 on a float
get_adjusted_thresholds(a) ==
    LET correction == get_atr_correction_factor(a)
    IN  [decline |-> Times(BaseDecline, correction),
         rebound |-> Times(BaseRebound, correction)]

FGe(x, y) == x # NaN /\ y # NaN /\ x >= y
FLe(x, y) == x # NaN /\ y # NaN /\ x <= y

\* lines 85-100, the pd.Series branch: a Series of NaN on which the three
\* masks are filled in
get_atr_correction_factor_series(s) ==
    [k \in 1 .. Len(s) |->
        LET mask_low == FLt(s[k], AtrLow)
            mask_high == FGt(s[k], AtrHigh)
            mask_normal == FGe(s[k], AtrLow) /\ FLe(s[k], AtrHigh)
        IN  IF mask_normal THEN SqrtOf(1, 1)
            ELSE IF mask_high THEN SqrtOf(s[k], AtrHigh)
            ELSE IF mask_low THEN SqrtOf(s[k], AtrLow)
            ELSE NaNSurd]

\* lines 111-130 on a pd.Series: the products are elementwise
get_adjusted_thresholds_series(s) ==
    LET correction == get_atr_correction_factor_series(s)
    IN  [decline |-> [k \in 1 .. Len(s) |-> Times(BaseDecline, correction[k])],
         rebound |-> [k \in 1 .. Len(s) |-> Times(BaseRebound, correction[k])]]

\* the outcome of a call: an exception raised or a value returned
Raised == [raised |-> TRUE, value |-> <<>>]
Returned(v) == [raised |-> FALSE, value |-> v]

Abs(x) == IF x < 0 THEN -x ELSE x

\* mutant: only len(high) and len(close) compared; the days all three
\* series have are computed
TrueRangeLowUnchecked(high, low, close) ==
    IF Len(high) # Len(close) THEN Raised
    ELSE Returned(
        [d \in 1 .. (IF Len(low) < Len(high) THEN Len(low) ELSE Len(high)) |->
            high[d] - low[d]])

\* lines 27-41: DataFrame.max(axis=1) skips NaN, so that on the first day,
\* where close.shift(1) is NaN, the maximum is high - low
calculate_true_range(high, low, close) ==
    IF Len(high) # Len(low) \/ Len(high) # Len(close) THEN Raised
    ELSE Returned(
        [d \in 1 .. Len(high) |->
            LET hl == high[d] - low[d]
            IN  IF d = 1 THEN hl
                ELSE LET prev_close == close[d - 1]
                         hc == Abs(high[d] - prev_close)
                         lc == Abs(low[d] - prev_close)
                     IN  Max3(hl, hc, lc)])

RECURSIVE SumOver(_, _, _)
SumOver(s, lo, hi) == IF lo > hi THEN 0 ELSE s[hi] + SumOver(s, lo, hi - 1)

\* mutant: the true range of the first day taken as NaN, so that the first
\* full window ends one day later
AtrAfterFirstDay(high, low, close, window) ==
    LET tr == calculate_true_range(high, low, close)
    IN  IF tr.raised THEN Raised
        ELSE Returned(
            [d \in 1 .. Len(close) |->
                IF d <= window THEN Ratio(0, 0)
                ELSE Ratio(SumOver(tr.value, d - window + 1, d),
                           window * close[d])])

\* lines 58-67: rolling(window, min_periods=window).mean() is NaN until the
\* window is full; the result is divided by close.  The values are fractions
\* (0 / 0 is NaN).
calculate_atr(high, low, close, window) ==
    LET tr == calculate_true_range(high, low, close)
    IN  IF tr.raised THEN Raised
        ELSE Returned(
            [d \in 1 .. Len(close) |->
                IF d < window THEN Ratio(0, 0)
                ELSE Ratio(SumOver(tr.value, d - window + 1, d),
                           window * close[d])])

\* ------------------------------------------- factors/decline_rebound.py
\* TrendResult(False, False, 0, 0, 0, 0)
InvalidResult ==
    [is_valid |-> FALSE, ends_today |-> FALSE, bottom_price |-> 0,
     bottom_idx |-> 0, high_price |-> 0, high_idx |-> 0]

\* The locals of one call of _trace_decline_trend.  pc is "call" before the
\* call, "loop" while the for loop runs and "returned" after a return; i is
\* the next value of the loop variable.  closeReads and atrReads are the
\* positions read so far and term holds the day on which the termination
\* test succeeded (history only, the code does not keep them).
NoTrace ==
    [pc |-> "call", high_price |-> 0, bottom_price |-> 0, bottom_idx |-> 0,
     i |-> 0, result |-> InvalidResult, term |-> {},
     closeReads |-> {}, atrReads |-> {}]

\* mutant: the precondition written high_idx > current_idx
TraceEnterOffByOne(cl, h, cur) ==
    IF h > cur
    THEN [NoTrace EXCEPT !.pc = "returned"]
    ELSE [NoTrace EXCEPT !.pc = "loop",
                         !.high_price = iloc(cl, h),
                         !.bottom_price = iloc(cl, h),
                         !.bottom_idx = h,
                         !.i = h + 1,
                         !.closeReads = {h}]

\* lines 54-59: the precondition and the initial running bottom
TraceEnter(cl, h, cur) ==
    IF h >= cur
    THEN [NoTrace EXCEPT !.pc = "returned"]
    ELSE [NoTrace EXCEPT !.pc = "loop",
                         !.high_price = iloc(cl, h),
                         !.bottom_price = iloc(cl, h),
                         !.bottom_idx = h,
                         !.i = h + 1,
                         !.closeReads = {h}]

\* mutant: the undefined-ATR test moved above the update of the bottom
RunningBottomAfterSkip(cl, at, st, i) ==
    LET current_price == iloc(cl, i)
    IN  IF ~isna(iloc(at, i)) /\ current_price < st.bottom_price
        THEN [st EXCEPT !.bottom_price = current_price, !.bottom_idx = i]
        ELSE st

\* mutant: the bottom moved on a close equal to it, "<=" for "<"
RunningBottomLatest(cl, at, st, i) ==
    LET current_price == iloc(cl, i)
    IN  IF current_price <= st.bottom_price
        THEN [st EXCEPT !.bottom_price = current_price, !.bottom_idx = i]
        ELSE st

\* lines 63-69: the running bottom after day i
RunningBottom(cl, at, st, i) ==
    LET current_price == iloc(cl, i)
    IN  IF current_price < st.bottom_price
        THEN [st EXCEPT !.bottom_price = current_price, !.bottom_idx = i]
        ELSE st

\* mutant: the termination test made on current_idx only
ReboundEndsOnlyToday(cl, at, i, cur) ==
    /\ i = cur
    /\ ~isna(iloc(at, i))
    /\ RatGe(Ratio(iloc(cl, i) - iloc(cl, i - 1), iloc(cl, i - 1)),
             get_adjusted_thresholds(iloc(at, i)).rebound)

\* mutant: the threshold of current_idx (the unused parameter
\* current_rebound_threshold) in place of the day's own
ReboundEndsStaleThreshold(cl, at, i, cur) ==
    /\ ~isna(iloc(at, i))
    /\ RatGe(Ratio(iloc(cl, i) - iloc(cl, i - 1), iloc(cl, i - 1)),
             get_adjusted_thresholds(iloc(at, cur)).rebound)

\* lines 72-82: day i ends the rebound (its ATR is defined and its daily
\* return reaches the day's own rebound threshold)
ReboundEnds(cl, at, i, cur) ==
    LET current_price == iloc(cl, i)
        prev_price == iloc(cl, i - 1)
        daily_return == Ratio(current_price - prev_price, prev_price)
        day_atr == iloc(at, i)
    IN  /\ ~isna(day_atr)
        /\ RatGe(daily_return, get_adjusted_thresholds(day_atr).rebound)

\* mutant: the direction test written overall_decline > 0
TrendReturnStrict(st, h, i, cur) ==
    IF st.bottom_price - st.high_price > 0
    THEN InvalidResult
    ELSE [is_valid |-> TRUE,
          ends_today |-> (i = cur),
          bottom_price |-> st.bottom_price,
          bottom_idx |-> st.bottom_idx,
          high_price |-> st.high_price,
          high_idx |-> h]

\* lines 84-98: the TrendResult returned on a termination day i
TrendReturn(st, h, i, cur) ==
    LET ends_today == (i = cur)
        overall_decline ==
            Ratio(st.bottom_price - st.high_price, st.high_price)
    IN  IF overall_decline.n >= 0 /\ ~IsNaNRatio(overall_decline)
        THEN InvalidResult
        ELSE [is_valid |-> TRUE,
              ends_today |-> ends_today,
              bottom_price |-> st.bottom_price,
              bottom_idx |-> st.bottom_idx,
              high_price |-> st.high_price,
              high_idx |-> h]

\* lines 62-98: one iteration of the loop, for day st.i
TraceBody(cl, at, st, h, cur) ==
    LET i == st.i
        low == RunningBottom(cl, at, st, i)
        next == [low EXCEPT !.i = i + 1,
                            !.closeReads = @ \cup {i, i - 1},
                            !.atrReads = @ \cup {i}]
    IN  IF ReboundEnds(cl, at, i, cur)
        THEN [next EXCEPT !.pc = "returned", !.term = {i},
                          !.result = TrendReturn(low, h, i, cur)]
        ELSE next

\* line 101: the loop ran to current_idx without a termination day
TraceExhaust(st) == [st EXCEPT !.pc = "returned", !.result = InvalidResult]

RECURSIVE TraceRun(_, _, _, _, _)
TraceRun(cl, at, st, h, cur) ==
    IF st.pc = "returned" THEN st
    ELSE IF st.i > cur THEN TraceExhaust(st)
    ELSE TraceRun(cl, at, TraceBody(cl, at, st, h, cur), h, cur)

\* _trace_decline_trend(close, atr60, high_idx, current_idx, _): the locals
\* at the return; .result is the TrendResult returned
trace_decline_trend(cl, at, h, cur) ==
    TraceRun(cl, at, TraceEnter(cl, h, cur), h, cur)

\* lines 118-121
has_signal_between(trig, h, cur) ==
    \E k \in 1 .. Len(trig) : h < trig[k] /\ trig[k] < cur

\* mutant: the day is judged on the magnitudes of the path from h to t alone
\* (bottom = lowest close after h), without the day-by-day trace and without
\* the test against earlier signals
CandidateAcceptedMagnitudes(cl, at, trig, h, t) ==
    LET th == get_adjusted_thresholds(iloc(at, t))
        high_price == iloc(cl, h)
        bottom_price ==
            CHOOSE b \in {iloc(cl, d) : d \in h .. t} :
                \A d \in h .. t : b <= iloc(cl, d)
    IN  /\ bottom_price < high_price
        /\ RatLe(Ratio(bottom_price - high_price, high_price), th.decline)
        /\ RatGe(Ratio(iloc(cl, t) - bottom_price, bottom_price), th.rebound)

\* mutant: a candidate whose own ATR is undefined is passed over
CandidateAcceptedDefinedHigh(cl, at, trig, h, t) ==
    LET trend_result == trace_decline_trend(cl, at, h, t).result
        th == get_adjusted_thresholds(iloc(at, t))
    IN  /\ ~isna(iloc(at, h))
        /\ trend_result.is_valid
        /\ trend_result.ends_today
        /\ RatLe(Ratio(trend_result.bottom_price - trend_result.high_price,
                       trend_result.high_price), th.decline)
        /\ RatGe(Ratio(iloc(cl, t) - trend_result.bottom_price,
                       trend_result.bottom_price), th.rebound)
        /\ ~has_signal_between(trig, trend_result.high_idx, t)

\* lines 165-202 for one high_candidate_idx h on evaluation day t: the
\* condition under which the day is marked
CandidateAccepted(cl, at, trig, h, t) ==
    LET current_price == iloc(cl, t)
        th == get_adjusted_thresholds(iloc(at, t))
        trend_result == trace_decline_trend(cl, at, h, t).result
        total_decline ==
            Ratio(trend_result.bottom_price - trend_result.high_price,
                  trend_result.high_price)
        rebound_from_bottom ==
            Ratio(current_price - trend_result.bottom_price,
                  trend_result.bottom_price)
        decline_ok == RatLe(total_decline, th.decline)
        rebound_ok == RatGe(rebound_from_bottom, th.rebound)
        no_signal_between ==
            ~has_signal_between(trig, trend_result.high_idx, t)
    IN  /\ trend_result.is_valid
        /\ trend_result.ends_today
        /\ decline_ok /\ rebound_ok /\ no_signal_between

\* mutant: the loop without its break
RECURSIVE CandidateLoopNoBreak(_, _, _, _, _, _)
CandidateLoopNoBreak(cl, at, trig, h, t, done) ==
    IF h >= t THEN [accepted |-> <<>>, tried |-> done]
    ELSE LET rest == CandidateLoopNoBreak(cl, at, trig, h + 1, t,
                                          Append(done, h))
         IN  IF CandidateAccepted(cl, at, trig, h, t)
             THEN [rest EXCEPT !.accepted = <<h>> \o @]
             ELSE rest

\* mutant: the candidates tried newest first, range(i - 1, lookback_start - 1, -1)
RECURSIVE CandidateLoopDown(_, _, _, _, _, _, _)
CandidateLoopDown(cl, at, trig, lo, h, t, done) ==
    IF h < lo THEN [accepted |-> <<>>, tried |-> done]
    ELSE IF CandidateAccepted(cl, at, trig, h, t)
         THEN [accepted |-> <<h>>, tried |-> Append(done, h)]
         ELSE CandidateLoopDown(cl, at, trig, lo, h - 1, t, Append(done, h))
CandidateLoopNewestFirst(cl, at, trig, h, t, done) ==
    CandidateLoopDown(cl, at, trig, h, t - 1, t, done)

\* mutant: the break one level out, so that only the oldest candidate of the
\* window is tried
CandidateLoopOldestOnly(cl, at, trig, h, t, done) ==
    IF h >= t THEN [accepted |-> <<>>, tried |-> done]
    ELSE IF CandidateAccepted(cl, at, trig, h, t)
         THEN [accepted |-> <<h>>, tried |-> Append(done, h)]
         ELSE [accepted |-> <<>>, tried |-> Append(done, h)]

\* lines 177-205: the candidates from h on, in ascending order, up to the
\* break; accepted lists the high_idx of every append made for the day
RECURSIVE CandidateLoop(_, _, _, _, _, _)
CandidateLoop(cl, at, trig, h, t, done) ==
    IF h >= t THEN [accepted |-> <<>>, tried |-> done]
    ELSE IF CandidateAccepted(cl, at, trig, h, t)
         THEN [accepted |-> <<h>>, tried |-> Append(done, h)]
         ELSE CandidateLoop(cl, at, trig, h + 1, t, Append(done, h))

Max(a, b) == IF a > b THEN a ELSE b

\* mutant: the window one day short
lookback_start_short(t, lb) == Max(0, t - lb + 1)

\* line 174
lookback_start(t, lb) == Max(0, t - lb)

\* ------------------------------------------------------------------ state
VARIABLES
    close,              \* data['close']
    atr60,              \* data['atr60']
    lookback_days,
    pc,                 \* generate_signals: "enter", "scan", "done", "error"
                        \* (the ValueError raised); "idle": not called
    i,                  \* the loop variable of line 164
    signals,            \* the pd.Series returned
    triggered_signals,
    accepted_high,      \* history: trend_result.high_idx of each append
    tried,              \* history: the candidates tried on the last day scanned
    high_idx,           \* a direct call of _trace_decline_trend: its arguments
    current_idx,
    tr,                 \* and its locals
    data,               \* the DataFrame passed to generate_signals
    run,                \* history: 1 in the first call on data, 2 in the second
    first,              \* history: the outcome of the first call
    call,               \* a direct call of a function of indicators.py
    out,                \* and its outcome
    verify              \* verify_refactoring.py: the locals of its checks

vars == <<close, atr60, lookback_days, pc, i, signals, triggered_signals,
          accepted_high, tried, high_idx, current_idx, tr,
          data, run, first, call, out, verify>>

scanVars == <<pc, i, signals, triggered_signals, accepted_high, tried>>
inputVars == <<close, atr60, lookback_days>>
traceVars == <<high_idx, current_idx, tr>>
frameVars == <<data, run, first>>
callVars == <<call, out>>

\* no DataFrame, no first call, no call of an indicator
NoFrame == [index |-> <<>>, cols |-> <<>>]
NoRun == [pc |-> "idle", signals |-> <<>>, triggered_signals |-> <<>>]
NoCall == [fn |-> "none"]
NoOut == [raised |-> FALSE, value |-> <<>>]
NoVerify == [at |-> "none"]
ScanOnly ==
    /\ data = NoFrame /\ run = 1 /\ first = NoRun
    /\ call = NoCall /\ out = NoOut
    /\ verify = NoVerify

\* ---------------------------------------------------------- generate_signals
\* mutant: the driving loop over range(len(close))
range_start_zero(lb) == 0

\* line 164: the first value of range(lookback_days, len(close))
range_start(lb) == lb

\* lines 159-164: the state on entering the driving loop
ScanStart ==
    /\ pc = "scan"
    /\ i = range_start(lookback_days)
    /\ signals = [k \in 1 .. Len(close) |-> FALSE]
    /\ triggered_signals = <<>>
    /\ accepted_high = <<>>
    /\ tried = <<>>
    /\ high_idx = 0 /\ current_idx = 0 /\ tr = NoTrace

\* an ATR series as calculate_atr leaves it (indicators.py line 62, rolling
\* with min_periods): undefined on the first k days, defined afterwards
AtrSeries(len) ==
    {a \in [1 .. len -> AtrDay] :
        \E k \in 1 .. len : \A d \in 1 .. len : a[d] = NaN <=> d <= k}

InitSeries ==
    /\ close \in [1 .. MaxLen -> Prices]
    /\ atr60 \in AtrSeries(MaxLen)
    /\ lookback_days \in 1 .. MaxLookback

InitExample ==
    /\ close = ExampleClose
    /\ atr60 \in [1 .. Len(ExampleClose) -> ExampleAtr]
    /\ lookback_days \in 1 .. Len(ExampleClose)

Init == (InitSeries \/ InitExample) /\ ScanStart /\ ScanOnly

\* lines 168-170: a day whose ATR is undefined is skipped
SkipDay ==
    /\ pc = "scan"
    /\ i < Len(close)
    /\ isna(iloc(atr60, i))
    /\ i' = i + 1
    /\ tried' = <<>>
    /\ UNCHANGED <<pc, signals, triggered_signals, accepted_high>>
    /\ UNCHANGED <<inputVars, traceVars, frameVars, callVars, verify>>

\* lines 165-205: one evaluation day with a defined ATR
EvalDay ==
    /\ pc = "scan"
    /\ i < Len(close)
    /\ ~isna(iloc(atr60, i))
    /\ \E res \in {CandidateLoop(close, atr60, triggered_signals,
                                 lookback_start(i, lookback_days), i, <<>>)} :
           /\ tried' = res.tried
           /\ signals' = IF res.accepted = <<>> THEN signals
                         ELSE [signals EXCEPT ![i + 1] = TRUE]
           /\ triggered_signals' =
                  triggered_signals \o [k \in 1 .. Len(res.accepted) |-> i]
           /\ accepted_high' = accepted_high \o res.accepted
    /\ i' = i + 1
    /\ UNCHANGED <<pc, inputVars, traceVars, frameVars, callVars, verify>>

\* line 207
Return ==
    /\ pc = "scan"
    /\ i >= Len(close)
    /\ pc' = "done"
    /\ UNCHANGED <<i, signals, triggered_signals, accepted_high, tried>>
    /\ UNCHANGED <<inputVars, traceVars, frameVars, callVars, verify>>

Next == SkipDay \/ EvalDay \/ Return

Spec == Init /\ [][Next]_vars

\* ------------------------------------------- _trace_decline_trend, stepwise
\* A direct call with any pair of positions; atr60 is any column the caller
\* may supply (position 0 is read by no call and is kept undefined).
InitTrace ==
    /\ close \in [1 .. MaxTraceLen -> Prices]
    /\ atr60 \in {a \in [1 .. MaxTraceLen -> AtrDay] : a[1] = NaN}
    /\ lookback_days = 1
    /\ high_idx \in Positions(close)
    /\ current_idx \in Positions(close)
    /\ tr = NoTrace
    /\ pc = "idle"
    /\ i = 0
    /\ signals = [k \in 1 .. Len(close) |-> FALSE]
    /\ triggered_signals = <<>>
    /\ accepted_high = <<>>
    /\ tried = <<>>
    /\ ScanOnly

\* lines 54-59
TraceCall ==
    /\ pc = "idle"
    /\ tr.pc = "call"
    /\ tr' = TraceEnter(close, high_idx, current_idx)
    /\ UNCHANGED <<inputVars, scanVars, high_idx, current_idx>>
    /\ UNCHANGED <<frameVars, callVars, verify>>

\* lines 62-98: one iteration
TraceStep ==
    /\ pc = "idle"
    /\ tr.pc = "loop"
    /\ tr.i <= current_idx
    /\ tr' = TraceBody(close, atr60, tr, high_idx, current_idx)
    /\ UNCHANGED <<inputVars, scanVars, high_idx, current_idx>>
    /\ UNCHANGED <<frameVars, callVars, verify>>

\* line 101
TraceReturn ==
    /\ pc = "idle"
    /\ tr.pc = "loop"
    /\ tr.i > current_idx
    /\ tr' = TraceExhaust(tr)
    /\ UNCHANGED <<inputVars, scanVars, high_idx, current_idx>>
    /\ UNCHANGED <<frameVars, callVars, verify>>

NextTrace == TraceCall \/ TraceStep \/ TraceReturn

SpecTrace == InitTrace /\ [][NextTrace]_vars

\* ------------------------------------------------- calls of the public API
\* A DataFrame is its index (the timestamps) and its columns, a function from
\* the names of the columns present to series of one length.
RequiredColumns == {"high", "low", "close"}
AllColumns == RequiredColumns \cup {"atr60"}

Frame(idx, cl, at, names) ==
    [index |-> idx,
     cols |-> [c \in names |->
                 IF c = "close" THEN cl
                 ELSE IF c = "atr60" THEN at
                 ELSE IF c = "high" THEN [d \in 1 .. Len(cl) |-> cl[d] + 1]
                 ELSE [d \in 1 .. Len(cl) |-> cl[d] - 1]]]

RangeIndex(n) == [d \in 1 .. n |-> d]
StrictlyIncreasing(idx) ==
    \A d \in 1 .. Len(idx) - 1 : idx[d] < idx[d + 1]

\* a decline followed by a rebound, with the ATR defined from day 1 on
DipClose == <<201, 188, 200>>
DipAtr == <<NaN, 150, 150>>

\* every subset of the columns
FramesColumns ==
    {Frame(RangeIndex(Len(DipClose)), DipClose, DipAtr, names) :
        names \in SUBSET AllColumns}

\* well-formed frames
FramesGeneral ==
    {Frame(RangeIndex(MaxCallLen), cl, at, AllColumns) :
        cl \in [1 .. MaxCallLen -> Prices], at \in AtrSeries(MaxCallLen)}

\* a constant close with any ATR column, ATR 0 included
FlatAtr == {NaN, 0, 150}
FramesFlat ==
    {Frame(RangeIndex(MaxCallLen), [d \in 1 .. MaxCallLen |-> c], at,
           AllColumns) :
        c \in Prices, at \in [1 .. MaxCallLen -> FlatAtr]}

\* closes of which at least one is zero or negative
BadPrices == {-2, 0, 1, 2}
FramesBadClose ==
    {Frame(RangeIndex(MaxCallLen), cl,
           [d \in 1 .. MaxCallLen |-> IF d = 1 THEN NaN ELSE 150],
           AllColumns) :
        cl \in {c \in [1 .. MaxCallLen -> BadPrices] :
                   \E d \in 1 .. MaxCallLen : c[d] <= 0}}

\* timestamps that repeat or go back
FramesBadIndex ==
    {Frame(idx, DipClose, DipAtr, AllColumns) :
        idx \in {x \in [1 .. Len(DipClose) -> 1 .. Len(DipClose)] :
                    ~StrictlyIncreasing(x)}}

Frames ==
    FramesColumns \cup FramesGeneral \cup FramesFlat
        \cup FramesBadClose \cup FramesBadIndex

\* direct calls of the functions of indicators.py
AtrPoints == {0, 50, 100, 150, 200, 300}
AtrArgs == AtrPoints \cup {NaN}
TrPrices == {10, 13}
SeriesOf(values) ==
    UNION {[1 .. n -> values] : n \in 1 .. MaxSeriesLen}
ScalarCalls ==
    {[fn |-> f, series |-> FALSE, atr60 |-> a] :
        f \in {"get_atr_correction_factor", "get_adjusted_thresholds"},
        a \in AtrArgs}
SeriesCalls ==
    {[fn |-> f, series |-> TRUE, atr60 |-> a] :
        f \in {"get_atr_correction_factor", "get_adjusted_thresholds"},
        a \in SeriesOf(AtrArgs)}
TrueRangeCalls ==
    {[fn |-> "calculate_true_range", high |-> h, low |-> l, close |-> c] :
        h \in SeriesOf(TrPrices), l \in SeriesOf(TrPrices),
        c \in SeriesOf(TrPrices)}

InitGenerate ==
    /\ data \in Frames
    /\ lookback_days \in 1 .. MaxLookback
    /\ pc = "enter"
    /\ close = <<>> /\ atr60 = <<>>
    /\ i = 0
    /\ signals = <<>>
    /\ triggered_signals = <<>>
    /\ accepted_high = <<>>
    /\ tried = <<>>
    /\ high_idx = 0 /\ current_idx = 0 /\ tr = NoTrace
    /\ run = 1 /\ first = NoRun
    /\ call = NoCall /\ out = NoOut
    /\ verify = NoVerify

\* daily bars <<high, low, close>>: a wide day, a day closing at its high
\* and a day closing at its low, so that after one another each of
\* high - low, |high - prev_close| and |low - prev_close| is the largest
Bars == {<<13, 10, 12>>, <<13, 12, 13>>, <<11, 10, 10>>}
BarSeries == [1 .. MaxSeriesLen -> Bars]
Column(b, c) == [d \in 1 .. Len(b) |-> b[d][c]]

\* calculate_true_range on the columns of a series of bars
TrueRangeBarCalls ==
    {[fn |-> "calculate_true_range", high |-> Column(b, 1),
      low |-> Column(b, 2), close |-> Column(b, 3)] : b \in BarSeries}

\* calculate_atr on the columns of a series of bars, with every window up to
\* the length and one beyond
AtrCalls ==
    {[fn |-> "calculate_atr", high |-> Column(b, 1), low |-> Column(b, 2),
      close |-> Column(b, 3), window |-> w] :
        b \in BarSeries, w \in 1 .. MaxSeriesLen + 1}

\* Series.pct_change(): undefined on the first day
pct_change(cl) ==
    [d \in 1 .. Len(cl) |->
        IF d = 1 THEN Ratio(0, 0) ELSE Ratio(cl[d] - cl[d - 1], cl[d - 1])]

\* ------------------------------------------------ backtest/signal_analyzer.py
\* Returns are percentages kept as exact fractions [n, d].
\* line 45: signals[signals == True].index.tolist(), from day d on
RECURSIVE signal_dates_from(_, _)
signal_dates_from(sig, d) ==
    IF d > Len(sig.values) THEN <<>>
    ELSE IF sig.values[d]
    THEN <<sig.index[d]>> \o signal_dates_from(sig, d + 1)
    ELSE signal_dates_from(sig, d + 1)

\* line 60: data.index.get_indexer([signal_date])[0], -1 when it is not there
get_indexer(index, signal_date) ==
    IF \E d \in 1 .. Len(index) : index[d] = signal_date
    THEN (CHOOSE d \in 1 .. Len(index) : index[d] = signal_date) - 1
    ELSE -1

RECURSIVE MaxOf(_)
MaxOf(s) == IF Len(s) = 1 THEN s[1] ELSE Max(s[1], MaxOf(Tail(s)))

\* lines 57-116: the body of the loop for one signal; the results list with
\* this signal's result appended, or unchanged when the signal is passed over
signal_performance(frame, signal_date, holding_periods, direction) ==
    LET signal_idx == get_indexer(frame.index, signal_date)
        max_period == MaxOf(holding_periods)
        cl == frame.cols["close"]
        base_price == iloc(cl, signal_idx)
        future_prices == [k \in 1 .. max_period + 1 |->
                             iloc(cl, signal_idx + k - 1)]
        signal_return == iloc(pct_change(cl), signal_idx)
        trade_direction ==
            IF direction = "bidirectional"
            THEN IF signal_return.n > 0 THEN "up" ELSE "down"
            ELSE IF direction = "long" THEN "up" ELSE "down"
        price_returns ==
            [k \in 1 .. max_period + 1 |->
                Ratio((future_prices[k] - base_price) * 100, base_price)]
        trading_returns ==
            IF trade_direction = "up" THEN price_returns
            ELSE [k \in 1 .. max_period + 1 |->
                     Ratio((base_price - future_prices[k]) * 100,
                           future_prices[k])]
    IN  IF signal_idx = -1 THEN <<>>
        ELSE IF signal_idx + max_period >= Len(frame.index) THEN <<>>
        ELSE <<[signal_date |-> signal_date,
                base_price |-> base_price,
                direction |-> trade_direction,
                day_return |->
                    [k \in 1 .. Len(holding_periods) |->
                        iloc(trading_returns, holding_periods[k])],
                price_returns_series |->
                    [k \in 1 .. max_period |-> price_returns[k + 1]],
                trading_returns_series |->
                    [k \in 1 .. max_period |-> trading_returns[k + 1]]]>>

\* lines 55-116: the loop over signal_dates
RECURSIVE performance_of(_, _, _, _)
performance_of(frame, dates, holding_periods, direction) ==
    IF dates = <<>> THEN <<>>
    ELSE signal_performance(frame, Head(dates), holding_periods, direction)
             \o performance_of(frame, Tail(dates), holding_periods, direction)

\* lines 136-181: _calculate_statistics.  For each holding period with
\* returns the summary holds the sample count and the returns themselves,
\* of which the mean, median, deviation and t-test are functions.
calculate_statistics(performance_results, holding_periods) ==
    LET returns_list(k) ==
            SelectSeq([r \in 1 .. Len(performance_results) |->
                          performance_results[r].day_return[k]],
                      LAMBDA q : ~IsNaNRatio(q))
    IN  [p \in {holding_periods[k] : k \in
                  {j \in 1 .. Len(holding_periods) :
                      returns_list(j) # <<>>}} |->
            LET k == CHOOSE j \in 1 .. Len(holding_periods) :
                         holding_periods[j] = p
            IN  [sample_count |-> Len(returns_list(k)),
                 returns |-> returns_list(k)]]

\* lines 18-133: analyze_signals
analyze_signals(frame, sig, holding_periods, direction) ==
    IF "close" \notin DOMAIN frame.cols THEN Raised
    ELSE
        LET signal_dates == signal_dates_from(sig, 1)
            performance_results ==
                performance_of(frame, signal_dates, holding_periods, direction)
        IN  IF Len(signal_dates) = 0
            THEN Returned([performance_results |-> <<>>,
                           stats_summary |-> <<>>,
                           error |-> "no signals"])
            ELSE IF performance_results = <<>>
            THEN Returned([performance_results |-> <<>>,
                           stats_summary |-> <<>>,
                           error |-> "not enough data"])
            ELSE Returned(
                [performance_results |-> performance_results,
                 stats_summary |-> calculate_statistics(performance_results,
                                                        holding_periods),
                 total_signals |-> Len(performance_results),
                 holding_periods |-> holding_periods])

\* analyze_signals on closes that rise and fall, every signal series over
\* them, holding one day or one and two days, each direction
AnalyzePrices == {10, 11}
AnalyzeCalls ==
    {[fn |-> "analyze_signals",
      data |-> [index |-> RangeIndex(Len(cl)), cols |-> [close |-> cl]],
      signals |-> [index |-> RangeIndex(Len(cl)), values |-> marks],
      holding_periods |-> hp, direction |-> dir] :
        cl \in [1 .. MaxSeriesLen -> AnalyzePrices],
        marks \in [1 .. MaxSeriesLen -> BOOLEAN],
        hp \in {<<1>>, <<1, 2>>},
        dir \in {"long", "short", "bidirectional"}}

InitIndicator ==
    /\ \/ call \in ScalarCalls
       \/ call \in SeriesCalls
       \/ call \in TrueRangeCalls
       \/ call \in TrueRangeBarCalls
       \/ call \in AtrCalls
       \/ call \in AnalyzeCalls
    /\ out = NoOut
    /\ verify = NoVerify
    /\ pc = "call"
    /\ data = NoFrame /\ run = 1 /\ first = NoRun
    /\ lookback_days = 1
    /\ close = <<>> /\ atr60 = <<>>
    /\ i = 0
    /\ signals = <<>>
    /\ triggered_signals = <<>>
    /\ accepted_high = <<>>
    /\ tried = <<>>
    /\ high_idx = 0 /\ current_idx = 0 /\ tr = NoTrace

InitApi == InitGenerate \/ InitIndicator

\* decline_rebound.py lines 147-151: a required column is missing
EnterRaise ==
    /\ pc = "enter"
    /\ \E col \in RequiredColumns : col \notin DOMAIN data.cols
    /\ pc' = "error"
    /\ UNCHANGED <<i, signals, triggered_signals, accepted_high, tried>>
    /\ UNCHANGED <<inputVars, traceVars, frameVars, callVars, verify>>

\* the series of calculate_atr in the units of the atr60 column (exact when
\* the value is a multiple of 1e-4; a frame without the column is shorter
\* than the window here, and every value is NaN)
AtrUnits(v) ==
    [d \in 1 .. Len(v) |->
        IF IsNaNRatio(v[d]) THEN NaN ELSE (10000 * v[d].n) \div v[d].d]

\* mutant: the list kept at module level
SharedLog(left) == left

\* line 162: triggered_signals = [], whatever an earlier call left
EmptyLog(left) == <<>>

\* lines 147-164: the columns are there; up to the entry of the driving loop
EnterScan ==
    /\ pc = "enter"
    /\ \A col \in RequiredColumns : col \in DOMAIN data.cols
    /\ atr60' = IF "atr60" \in DOMAIN data.cols
                THEN data.cols["atr60"]
                ELSE AtrUnits(calculate_atr(data.cols["high"],
                                            data.cols["low"],
                                            data.cols["close"],
                                            AtrWindow).value)
    /\ close' = data.cols["close"]
    /\ signals' = [k \in 1 .. Len(data.cols["close"]) |-> FALSE]
    /\ triggered_signals' = EmptyLog(triggered_signals)
    /\ accepted_high' = <<>>
    /\ tried' = <<>>
    /\ i' = range_start(lookback_days)
    /\ pc' = "scan"
    /\ UNCHANGED <<lookback_days, traceVars, frameVars, callVars, verify>>

\* generate_signals is called a second time on the same DataFrame
CallAgain ==
    /\ pc \in {"done", "error"}
    /\ run = 1
    /\ run' = 2
    /\ first' = [pc |-> pc, signals |-> signals,
                 triggered_signals |-> triggered_signals]
    /\ pc' = "enter"
    /\ UNCHANGED <<i, signals, triggered_signals, accepted_high, tried>>
    /\ UNCHANGED <<inputVars, traceVars, data, callVars, verify>>

\* indicators.py lines 70-108
CallCorrectionFactor ==
    /\ pc = "call"
    /\ call.fn = "get_atr_correction_factor"
    /\ out' = Returned(IF call.series
                       THEN get_atr_correction_factor_series(call.atr60)
                       ELSE get_atr_correction_factor(call.atr60))
    /\ pc' = "returned"
    /\ UNCHANGED <<i, signals, triggered_signals, accepted_high, tried>>
    /\ UNCHANGED <<inputVars, traceVars, frameVars, call, verify>>

\* indicators.py lines 111-130
CallAdjustedThresholds ==
    /\ pc = "call"
    /\ call.fn = "get_adjusted_thresholds"
    /\ out' = Returned(IF call.series
                       THEN get_adjusted_thresholds_series(call.atr60)
                       ELSE get_adjusted_thresholds(call.atr60))
    /\ pc' = "returned"
    /\ UNCHANGED <<i, signals, triggered_signals, accepted_high, tried>>
    /\ UNCHANGED <<inputVars, traceVars, frameVars, call, verify>>

\* indicators.py lines 13-41
CallTrueRange ==
    /\ pc = "call"
    /\ call.fn = "calculate_true_range"
    /\ out' = calculate_true_range(call.high, call.low, call.close)
    /\ pc' = "returned"
    /\ UNCHANGED <<i, signals, triggered_signals, accepted_high, tried>>
    /\ UNCHANGED <<inputVars, traceVars, frameVars, call, verify>>

\* indicators.py lines 44-67
CallAtr ==
    /\ pc = "call"
    /\ call.fn = "calculate_atr"
    /\ out' = calculate_atr(call.high, call.low, call.close, call.window)
    /\ pc' = "returned"
    /\ UNCHANGED <<i, signals, triggered_signals, accepted_high, tried>>
    /\ UNCHANGED <<inputVars, traceVars, frameVars, call, verify>>

\* signal_analyzer.py lines 18-133
CallAnalyzeSignals ==
    /\ pc = "call"
    /\ call.fn = "analyze_signals"
    /\ out' = analyze_signals(call.data, call.signals, call.holding_periods,
                              call.direction)
    /\ pc' = "returned"
    /\ UNCHANGED <<i, signals, triggered_signals, accepted_high, tried>>
    /\ UNCHANGED <<inputVars, traceVars, frameVars, call, verify>>

NextApi ==
    \/ EnterRaise \/ EnterScan \/ SkipDay \/ EvalDay \/ Return \/ CallAgain
    \/ CallCorrectionFactor \/ CallAdjustedThresholds \/ CallTrueRange
    \/ CallAtr \/ CallAnalyzeSignals

SpecApi == InitApi /\ [][NextApi]_vars

\* ------------------------------------------ metrics/strategy1_definitions.py
\* The second implementation of the detector, Strategy1Definitions, as
\* functions of its inputs.  Its thresholds come from metrics/atr.py, which
\* is modelled from the specification of adjusted_thresholds: the piecewise
\* correction factor times the two bases, undefined when the ATR is.
atr_get_adjusted_thresholds(a) ==
    LET correction ==
            IF a = NaN THEN NaNSurd
            ELSE IF a < AtrLow THEN SqrtOf(a, AtrLow)
            ELSE IF a > AtrHigh THEN SqrtOf(a, AtrHigh)
            ELSE SqrtOf(1, 1)
    IN  [decline |-> Times(Ratio(-1, 20), correction),
         rebound |-> Times(Ratio(1, 200), correction)]

\* TrendResult(False, False, 0, 0, 0, 0)
S1_InvalidResult ==
    [is_valid |-> FALSE, ends_today |-> FALSE, bottom_price |-> 0,
     bottom_idx |-> 0, high_price |-> 0, high_idx |-> 0]

\* lines 136-174: the loop from day i on
RECURSIVE S1_trace_loop(_, _, _, _, _, _, _)
S1_trace_loop(cl, at, h, cur, day, bottom_price, bottom_idx) ==
    IF day > cur THEN S1_InvalidResult
    ELSE
        LET current_price == iloc(cl, day)
            prev_price == iloc(cl, day - 1)
            low_price == IF current_price < bottom_price
                         THEN current_price ELSE bottom_price
            low_idx == IF current_price < bottom_price THEN day ELSE bottom_idx
            daily_return == Ratio(current_price - prev_price, prev_price)
            day_atr == iloc(at, day)
            high_price == iloc(cl, h)
            overall_decline == Ratio(low_price - high_price, high_price)
        IN  IF isna(day_atr)
            THEN S1_trace_loop(cl, at, h, cur, day + 1, low_price, low_idx)
            ELSE IF RatGe(daily_return,
                          atr_get_adjusted_thresholds(day_atr).rebound)
            THEN IF overall_decline.n >= 0 /\ ~IsNaNRatio(overall_decline)
                 THEN S1_InvalidResult
                 ELSE [is_valid |-> TRUE,
                       ends_today |-> (day = cur),
                       bottom_price |-> low_price,
                       bottom_idx |-> low_idx,
                       high_price |-> high_price,
                       high_idx |-> h]
            ELSE S1_trace_loop(cl, at, h, cur, day + 1, low_price, low_idx)

\* lines 106-174: Strategy1Definitions._trace_decline_trend
S1_trace_decline_trend(cl, at, h, cur) ==
    IF h >= cur THEN S1_InvalidResult
    ELSE S1_trace_loop(cl, at, h, cur, h + 1, iloc(cl, h), h)

\* lines 177-193: Strategy1Definitions._has_signal_between
S1_has_signal_between(trig, h, cur) ==
    \E k \in 1 .. Len(trig) : h < trig[k] /\ trig[k] < cur

\* lines 75-102: the candidates from h on for day t; TRUE when one is accepted
RECURSIVE S1_candidates(_, _, _, _, _)
S1_candidates(cl, at, trig, h, t) ==
    IF h >= t THEN FALSE
    ELSE
        LET th == atr_get_adjusted_thresholds(iloc(at, t))
            trend_result == S1_trace_decline_trend(cl, at, h, t)
            total_decline ==
                Ratio(trend_result.bottom_price - trend_result.high_price,
                      trend_result.high_price)
            rebound_from_bottom ==
                Ratio(iloc(cl, t) - trend_result.bottom_price,
                      trend_result.bottom_price)
        IN  IF /\ trend_result.is_valid /\ trend_result.ends_today
               /\ RatLe(total_decline, th.decline)
               /\ RatGe(rebound_from_bottom, th.rebound)
               /\ ~S1_has_signal_between(trig, trend_result.high_idx, t)
            THEN TRUE
            ELSE S1_candidates(cl, at, trig, h + 1, t)

\* lines 61-104: the driving loop from day t on
RECURSIVE S1_days(_, _, _, _, _, _)
S1_days(cl, at, lb, t, sig, trig) ==
    IF t >= Len(cl) THEN sig
    ELSE IF isna(iloc(at, t)) THEN S1_days(cl, at, lb, t + 1, sig, trig)
    ELSE IF S1_candidates(cl, at, trig, Max(0, t - lb), t)
         THEN S1_days(cl, at, lb, t + 1, [sig EXCEPT ![t + 1] = TRUE],
                      Append(trig, t))
         ELSE S1_days(cl, at, lb, t + 1, sig, trig)

\* lines 25-104: Strategy1Definitions(data).correct_decline_rebound_strategy(
\* lookback_days)
correct_decline_rebound_strategy(frame, lb) ==
    IF \E col \in {"close", "atr60"} : col \notin DOMAIN frame.cols
    THEN Raised
    ELSE Returned(S1_days(frame.cols["close"], frame.cols["atr60"], lb, lb,
                          [k \in 1 .. Len(frame.cols["close"]) |-> FALSE],
                          <<>>))

\* --------------------------------------------- factors/triangle_breakout.py
\* Thresholds and the narrowing ratio are exact fractions [n, d].
\* abs(r) <= threshold and abs(r) > threshold for a return r; both are False
\* for an undefined return
AbsLe(r, threshold) ==
    ~IsNaNRatio(r) /\ r.d > 0 /\ Abs(r.n) * threshold.d <= threshold.n * r.d
AbsGt(r, threshold) ==
    ~IsNaNRatio(r) /\ (r.d = 0 \/ Abs(r.n) * threshold.d > threshold.n * r.d)

Max2(a, b) == IF a >= b THEN a ELSE b
Min2(a, b) == IF a <= b THEN a ELSE b

\* lines 14-46: _is_converging_triangle
is_converging_triangle(frame, idx, narrowing_ratio) ==
    IF idx < 4 THEN FALSE
    ELSE
        LET high == frame.cols["high"]
            low == frame.cols["low"]
            recent_range == Max2(iloc(high, idx - 1), iloc(high, idx))
                                - Min2(iloc(low, idx - 1), iloc(low, idx))
            earlier_range ==
                Max3(iloc(high, idx - 4), iloc(high, idx - 3),
                     iloc(high, idx - 2))
                    - Min2(iloc(low, idx - 4),
                           Min2(iloc(low, idx - 3), iloc(low, idx - 2)))
        IN  IF earlier_range <= 0 THEN FALSE
            ELSE recent_range * narrowing_ratio.d
                     < earlier_range * narrowing_ratio.n

TriangleColumns == {"open", "high", "low", "close"}

\* lines 89-109: the value written to signals.iloc[day]
triangle_signal(frame, day, convergence_threshold, breakout_threshold, narrowing_ratio) ==
    LET daily_return == pct_change(frame.cols["close"])
        convergence == \A k \in day - 5 .. day - 1 :
                           AbsLe(iloc(daily_return, k), convergence_threshold)
        current_return == iloc(daily_return, day)
        breakout == AbsGt(current_return, breakout_threshold)
        narrowing == is_converging_triangle(frame, day - 1, narrowing_ratio)
    IN  convergence /\ breakout /\ narrowing /\ ~IsNaNRatio(current_return)

\* lines 49-111: generate_signals
triangle_generate_signals(frame, convergence_threshold, breakout_threshold, narrowing_ratio) ==
    IF \E col \in TriangleColumns : col \notin DOMAIN frame.cols
    THEN Raised
    ELSE Returned(
        [index |-> frame.index,
         values |-> [d \in 1 .. Len(frame.index) |->
            /\ d - 1 >= 9
            /\ triangle_signal(frame, d - 1, convergence_threshold,
                               breakout_threshold, narrowing_ratio)]])

\* ------------------------------------------------------------------ config.py
\* lines 41-59: STRATEGY3_CONFIG['presets']
STRATEGY3_CONFIG_presets ==
    [basic |-> [convergence_threshold |-> Ratio(1, 100),
                breakout_threshold |-> Ratio(1, 100),
                narrowing_ratio |-> Ratio(8, 10)],
     strict |-> [convergence_threshold |-> Ratio(8, 1000),
                 breakout_threshold |-> Ratio(15, 1000),
                 narrowing_ratio |-> Ratio(7, 10)],
     loose |-> [convergence_threshold |-> Ratio(12, 1000),
                breakout_threshold |-> Ratio(8, 1000),
                narrowing_ratio |-> Ratio(85, 100)]]

\* mutant: the preset asked for is ignored, the strict one is returned
StrictParameters(preset) == STRATEGY3_CONFIG_presets["strict"]

\* lines 136-157: get_strategy_parameters('triangle_breakout', preset)
get_strategy_parameters(preset) == STRATEGY3_CONFIG_presets[preset]

\* ---------------------------------------- metrics/strategy3_definitions.py
\* lines 27-54: Strategy3Definitions.is_converging_triangle_simple
is_converging_triangle_simple(frame, idx, narrowing_ratio) ==
    IF idx < 4 THEN FALSE
    ELSE
        LET highs == [k \in 1 .. 5 |-> iloc(frame.cols["high"], idx - 5 + k)]
            lows == [k \in 1 .. 5 |-> iloc(frame.cols["low"], idx - 5 + k)]
            recent_range == Max2(highs[4], highs[5]) - Min2(lows[4], lows[5])
            earlier_range == Max3(highs[1], highs[2], highs[3])
                                 - Min2(lows[1], Min2(lows[2], lows[3]))
        IN  IF earlier_range <= 0 THEN FALSE
            ELSE recent_range * narrowing_ratio.d
                     < earlier_range * narrowing_ratio.n

\* lines 56-103: Strategy3Definitions.triangle_breakout_strategy, the loop
\* from day on
RECURSIVE S3_days(_, _, _, _, _, _)
S3_days(frame, day, sig, convergence_threshold, breakout_threshold, narrowing_ratio) ==
    IF day >= Len(frame.index) THEN sig
    ELSE
        LET daily_return == pct_change(frame.cols["close"])
            convergence ==
                \A k \in day - 5 .. day - 1 :
                    AbsLe(iloc(daily_return, k), convergence_threshold)
            current_return == iloc(daily_return, day)
            breakout == AbsGt(current_return, breakout_threshold)
            narrowing ==
                is_converging_triangle_simple(frame, day - 1, narrowing_ratio)
        IN  S3_days(frame, day + 1,
                    [sig EXCEPT ![day + 1] =
                        /\ convergence /\ breakout /\ narrowing
                        /\ ~IsNaNRatio(current_return)],
                    convergence_threshold, breakout_threshold, narrowing_ratio)

triangle_breakout_strategy(frame, convergence_threshold, breakout_threshold, narrowing_ratio) ==
    [index |-> frame.index,
     values |-> S3_days(frame, 9, [d \in 1 .. Len(frame.index) |-> FALSE],
                        convergence_threshold, breakout_threshold,
                        narrowing_ratio)]

\* lines 13-25 and 105-132: Strategy3Definitions(data).get_strategy_signals()
get_strategy_signals(frame) ==
    IF \E col \in TriangleColumns : col \notin DOMAIN frame.cols
    THEN Raised
    ELSE Returned(
        [triangle_breakout_basic |->
            triangle_breakout_strategy(frame, Ratio(1, 100), Ratio(1, 100),
                                       Ratio(8, 10)),
         triangle_breakout_strict |->
            triangle_breakout_strategy(frame, Ratio(8, 1000), Ratio(15, 1000),
                                       Ratio(7, 10)),
         triangle_breakout_loose |->
            triangle_breakout_strategy(frame, Ratio(12, 1000), Ratio(8, 1000),
                                       Ratio(85, 100))])

\* ------------------------------------------------------ verify_refactoring.py
\* lines 67-96: compare_series
compare_series(s1, s2) ==
    /\ Len(s1.values) = Len(s2.values)
    /\ s1.index = s2.index
    /\ s1.values = s2.values

\* daily bars <<open, high, low, close>>: a wide quiet day, a narrow quiet
\* day half a percent higher and a day closing a percent and a half above it
TriangleDays == 10
TriangleBars ==
    {<<1000, 1010, 990, 1000>>, <<1003, 1006, 1000, 1005>>,
     <<1010, 1025, 1005, 1020>>}
TriangleFrame(b) ==
    [index |-> RangeIndex(Len(b)),
     cols |-> [open |-> Column(b, 1), high |-> Column(b, 2),
               low |-> Column(b, 3), close |-> Column(b, 4)]]
TriangleFrames == {TriangleFrame(b) : b \in [1 .. TriangleDays -> TriangleBars]}

InitVerify ==
    /\ data \in TriangleFrames
    /\ verify = [at |-> "start"]
    /\ pc = "idle"
    /\ lookback_days = 1
    /\ close = <<>> /\ atr60 = <<>>
    /\ i = 0
    /\ signals = <<>>
    /\ triggered_signals = <<>>
    /\ accepted_high = <<>>
    /\ tried = <<>>
    /\ high_idx = 0 /\ current_idx = 0 /\ tr = NoTrace
    /\ run = 1 /\ first = NoRun
    /\ call = NoCall /\ out = NoOut

verifyRest == <<inputVars, scanVars, traceVars, frameVars, callVars>>

\* lines 122-125: the signals of the old code
VerifyOld ==
    /\ verify.at = "start"
    /\ verify' = [at |-> "old",
                  signals_old |-> get_strategy_signals(data)
                                      .value["triangle_breakout_basic"]]
    /\ UNCHANGED verifyRest

\* lines 131-138: the signals of the new code
VerifyNew ==
    /\ verify.at = "old"
    /\ \E params \in {get_strategy_parameters("basic")} :
           verify' = [at |-> "new",
                      signals_old |-> verify.signals_old,
                      signals_new |->
                          triangle_generate_signals(
                              data, params.convergence_threshold,
                              params.breakout_threshold,
                              params.narrowing_ratio).value]
    /\ UNCHANGED verifyRest

\* line 149: result = compare_series(signals_old, signals_new, ...)
VerifyCompare ==
    /\ verify.at = "new"
    /\ verify' = [at |-> "compared",
                  signals_old |-> verify.signals_old,
                  signals_new |-> verify.signals_new,
                  result |-> compare_series(verify.signals_old,
                                            verify.signals_new)]
    /\ UNCHANGED verifyRest

NextVerify == VerifyOld \/ VerifyNew \/ VerifyCompare

SpecVerify == InitVerify /\ [][NextVerify]_vars

\* ------------------------------------------------------------------ claims
\* the positions marked in signals before day t
Emitted(t) == {s \in Positions(close) : s < t /\ iloc(signals, s)}

\* candidate h meets the acceptance rule on day t: its trace is valid and
\* ends on t, the decline from the high to the bottom and the rebound from
\* the bottom to close[t] reach day t's thresholds, and no earlier signal
\* lies strictly between h and t
MeetsRule(h, t) ==
    \E r \in {trace_decline_trend(close, atr60, h, t).result} :
    \E th \in {get_adjusted_thresholds(iloc(atr60, t))} :
        /\ r.is_valid
        /\ r.ends_today
        /\ RatLe(Ratio(r.bottom_price - r.high_price, r.high_price),
                 th.decline)
        /\ RatGe(Ratio(iloc(close, t) - r.bottom_price, r.bottom_price),
                 th.rebound)
        /\ \A s \in Emitted(t) : ~(h < s /\ s < t)

\* C1: for any two emitted signals s1 < s2, the candidate high accepted for
\* s2 does not lie strictly below s1 (no earlier signal index is strictly
\* between the accepted high and the evaluation index of a later signal).
C1_NoOverlap ==
    /\ Len(accepted_high) = Len(triggered_signals)
    /\ \A k1, k2 \in 1 .. Len(triggered_signals) :
          triggered_signals[k1] < triggered_signals[k2] =>
              ~(accepted_high[k2] < triggered_signals[k1])

\* two signals, the second one accepted for a high that is the first signal day
C1_Witness ==
    /\ Len(triggered_signals) >= 2
    /\ accepted_high[2] = triggered_signals[1]
    /\ triggered_signals[1] < triggered_signals[2]

\* C2: a day whose ATR is undefined is never marked as a signal.
C2_NoSignalOnUndefinedAtr ==
    \A t \in Positions(close) : iloc(atr60, t) = NaN => ~iloc(signals, t)

\* the scan has passed an undefined-ATR day on which the close rebounds by
\* more than 5% after a fall of more than 5% from a high inside the window
C2_Witness ==
    /\ pc = "done"
    /\ \E t \in Positions(close) :
          /\ t >= lookback_days /\ t >= 2 /\ lookback_days >= 2
          /\ iloc(atr60, t) = NaN
          /\ iloc(close, t - 2) = 201
          /\ iloc(close, t - 1) = 188
          /\ iloc(close, t) = 200
          /\ ~iloc(signals, t)

\* C3: on the close path [100, 99, 98, 90, 91, 95] with correction 1.0 on
\* every day, the trace from candidate 0 reports ends_today only for
\* evaluation index 4 (bottom 90 at index 3); with the window reaching index
\* 0 from index 4 (lookback_days = 4) the detector marks index 4 and no
\* other index; index 5 is marked for no lookback_days, and index 4 is
\* marked exactly when it is scanned with a window of at least two days
\* (lookback_days in 2 .. 4).
C3_EndToEndExample ==
    close = ExampleClose =>
        /\ \A t \in 1 .. 5 :
              trace_decline_trend(close, atr60, 0, t).result.ends_today
                  <=> t = 4
        /\ trace_decline_trend(close, atr60, 0, 4).result =
              [is_valid |-> TRUE, ends_today |-> TRUE, bottom_price |-> 90,
               bottom_idx |-> 3, high_price |-> 100, high_idx |-> 0]
        /\ pc = "done" => ~iloc(signals, 5)
        /\ pc = "done" => (iloc(signals, 4) <=> lookback_days \in 2 .. 4)
        /\ (pc = "done" /\ lookback_days = 4) =>
              /\ signals = <<FALSE, FALSE, FALSE, FALSE, TRUE, FALSE>>
              /\ triggered_signals = <<4>>
              /\ accepted_high = <<0>>

C3_Witness ==
    /\ close = ExampleClose
    /\ pc = "done"
    /\ lookback_days = 4
    /\ iloc(signals, 4)
    /\ accepted_high = <<0>>

\* C4: in the series returned, a day t is marked if and only if
\* t >= lookback_days, its ATR is defined and some candidate h in
\* [t - lookback_days, t - 1] meets the acceptance rule on day t.
C4_AcceptanceRule ==
    \A t \in Positions(close) :
        pc = "done" =>
            (iloc(signals, t) <=>
                /\ t >= lookback_days
                /\ iloc(atr60, t) # NaN
                /\ \E h \in (t - lookback_days) .. (t - 1) : MeetsRule(h, t))

\* a marked day whose only candidate meeting the rule is the oldest one of
\* the window, and an unmarked scanned day with a defined ATR
C4_Witness ==
    /\ pc = "done"
    /\ \E t \in Positions(close) :
          /\ iloc(signals, t)
          /\ MeetsRule(t - lookback_days, t)
          /\ \A h \in (t - lookback_days + 1) .. (t - 1) : ~MeetsRule(h, t)
    /\ \E t \in Positions(close) :
          t >= lookback_days /\ iloc(atr60, t) # NaN /\ ~iloc(signals, t)

\* C5: on a scanned day the candidates are tried in ascending order from the
\* start of the window; if the day is marked, the last candidate tried is
\* the accepted one and is the smallest candidate meeting the rule, so no
\* later candidate is tried; otherwise every candidate of the window is
\* tried; an index is appended to the log at most once.
C5_FirstAcceptedWins ==
    /\ \A k1, k2 \in 1 .. Len(triggered_signals) :
          triggered_signals[k1] = triggered_signals[k2] => k1 = k2
    /\ (i > lookback_days /\ iloc(atr60, i - 1) # NaN) =>
          \E t \in {i - 1} : \E lo \in {t - lookback_days} :
              /\ tried = [k \in 1 .. Len(tried) |-> lo + k - 1]
              /\ Len(tried) <= lookback_days
              /\ IF iloc(signals, t)
                 THEN /\ tried # <<>>
                      /\ accepted_high # <<>>
                      /\ tried[Len(tried)] = accepted_high[Len(accepted_high)]
                      /\ MeetsRule(tried[Len(tried)], t)
                      /\ \A h \in lo .. (tried[Len(tried)] - 1) :
                            ~MeetsRule(h, t)
                 ELSE Len(tried) = lookback_days

\* a marked day on which a candidate later than the accepted one also meets
\* the rule and was not tried
C5_Witness ==
    /\ i > lookback_days
    /\ iloc(signals, i - 1)
    /\ tried # <<>>
    /\ \E h \in (tried[Len(tried)] + 1) .. (i - 2) : MeetsRule(h, i - 1)

\* day d qualifies as a termination day: its ATR is defined and its daily
\* return reaches the rebound threshold of that same day
Qualifies(d) ==
    /\ iloc(atr60, d) # NaN
    /\ RatGe(Ratio(iloc(close, d) - iloc(close, d - 1), iloc(close, d - 1)),
             get_adjusted_thresholds(iloc(atr60, d)).rebound)

QualifyingDays == {d \in (high_idx + 1) .. current_idx : Qualifies(d)}
FirstQualifying == CHOOSE d \in QualifyingDays : \A e \in QualifyingDays : d <= e

\* what the claim says of the day the trace stops on, apart from ends_today
StopsOnFirstQualifying ==
    IF QualifyingDays = {}
    THEN /\ tr.term = {}
         /\ ~tr.result.is_valid
         /\ ~tr.result.ends_today
    ELSE /\ tr.term = {FirstQualifying}
         /\ tr.i = FirstQualifying + 1
         /\ \A d \in tr.closeReads \cup tr.atrReads : d <= FirstQualifying

\* C6 as stated: a returned trace with high_idx < current_idx stopped on the
\* first qualifying day, read no later day, and reports ends_today exactly
\* when that day is current_idx; without a qualifying day it is invalid.
C6_AsStated ==
    (pc = "idle" /\ tr.pc = "returned" /\ high_idx < current_idx) =>
        /\ StopsOnFirstQualifying
        /\ QualifyingDays # {} =>
              (tr.result.ends_today <=> FirstQualifying = current_idx)

\* C6 amended: as stated, except that ends_today is reported exactly when the
\* first qualifying day is current_idx and some close after high_idx, up to
\* that day, is strictly below close[high_idx].
C6_TerminationDay ==
    (pc = "idle" /\ tr.pc = "returned" /\ high_idx < current_idx) =>
        /\ StopsOnFirstQualifying
        /\ QualifyingDays # {} =>
              (tr.result.ends_today <=>
                  /\ FirstQualifying = current_idx
                  /\ \E d \in (high_idx + 1) .. FirstQualifying :
                        iloc(close, d) < iloc(close, high_idx))

\* a trace that stopped on a qualifying day before current_idx although a
\* later day qualifies too
C6_Witness ==
    /\ pc = "idle" /\ tr.pc = "returned" /\ high_idx < current_idx
    /\ tr.result.is_valid
    /\ \E d, e \in QualifyingDays : d < e /\ tr.term = {d}

\* C7: a trace whose termination day is found while the running bottom is
\* not strictly below close[high_idx] returns is_valid = false and
\* ends_today = false; every valid result has bottom_price < high_price.
C7_DirectionValidation ==
    (pc = "idle" /\ tr.pc = "returned") =>
        /\ (tr.term # {} /\ tr.bottom_price >= iloc(close, high_idx)) =>
              (~tr.result.is_valid /\ ~tr.result.ends_today)
        /\ tr.result.is_valid =>
              /\ tr.result.bottom_price < tr.result.high_price
              /\ tr.result.high_price = iloc(close, high_idx)
              /\ tr.result.bottom_price = tr.bottom_price

\* the termination day is current_idx and no close fell below the high
C7_Witness ==
    /\ pc = "idle" /\ tr.pc = "returned"
    /\ tr.term = {current_idx}
    /\ tr.bottom_price = iloc(close, high_idx)
    /\ current_idx >= high_idx + 2

\* C8: an iteration on a day whose ATR is undefined does not end the trace
\* and still updates the running bottom from that day's close.
C8_UndefinedAtrDay ==
    [][(pc = "idle" /\ tr.pc = "loop" /\ tr.i <= current_idx
            /\ iloc(atr60, tr.i) = NaN) =>
        /\ tr'.pc = "loop"
        /\ tr'.term = {}
        /\ tr'.i = tr.i + 1
        /\ IF iloc(close, tr.i) < tr.bottom_price
           THEN tr'.bottom_price = iloc(close, tr.i) /\ tr'.bottom_idx = tr.i
           ELSE tr'.bottom_price = tr.bottom_price
                /\ tr'.bottom_idx = tr.bottom_idx]_vars

\* the loop has passed an undefined-ATR day that set the bottom and a later
\* undefined-ATR day with a daily return above 6%
C8_Witness ==
    /\ pc = "idle" /\ tr.pc = "loop"
    /\ tr.bottom_idx > high_idx
    /\ iloc(atr60, tr.bottom_idx) = NaN
    /\ \E d \in (tr.bottom_idx + 1) .. (tr.i - 1) :
          /\ iloc(atr60, d) = NaN
          /\ iloc(close, d - 1) = 188
          /\ iloc(close, d) = 200

\* C9: a call with high_idx >= current_idx returns at once with is_valid =
\* false and ends_today = false, having read no close and no ATR value.
C9_Precondition ==
    (pc = "idle" /\ high_idx >= current_idx /\ tr.pc # "call") =>
        /\ tr.pc = "returned"
        /\ ~tr.result.is_valid
        /\ ~tr.result.ends_today
        /\ tr.closeReads = {}
        /\ tr.atrReads = {}
        /\ tr.term = {}

C9_Witness ==
    /\ pc = "idle" /\ tr.pc = "returned"
    /\ high_idx = current_idx
    /\ high_idx > 0

\* C10: the log is append-only and strictly increasing: a step leaves
\* triggered_signals unchanged or appends the current evaluation index, the
\* entries are strictly increasing, the marks of signals are exactly the
\* entries of the log, and a step changes signals at most at the current index,
\* from unmarked to marked.
LogStrictlyIncreasing ==
    /\ \A k \in 1 .. (Len(triggered_signals) - 1) :
          triggered_signals[k] < triggered_signals[k + 1]
    /\ \A t \in Positions(close) :
          iloc(signals, t) <=>
              \E k \in 1 .. Len(triggered_signals) : triggered_signals[k] = t

LogStep ==
    /\ \/ triggered_signals' = triggered_signals
       \/ triggered_signals' = Append(triggered_signals, i) /\ i' = i + 1
    /\ \A t \in Positions(close) :
          /\ iloc(signals, t) => iloc(signals', t)
          /\ iloc(signals', t) # iloc(signals, t) => t = i
    /\ Len(signals') = Len(signals)

C10_AppendOnlyLog == []LogStrictlyIncreasing /\ [][LogStep]_vars

\* the scan ended, two days are marked, and the first mark was made at
\* least two scan steps before the end
C10_Witness ==
    /\ pc = "done"
    /\ Len(triggered_signals) = 2
    /\ triggered_signals[1] + 2 <= i
    /\ iloc(signals, triggered_signals[1])

\* C11: generate_signals is deterministic.  A second call on the same
\* DataFrame ends as the first did (returned or raised), returns the same
\* marks and has appended the same days to its log; nothing the first call
\* left behind reaches the second.
C11_Determinism ==
    (run = 2 /\ pc \in {"done", "error"}) =>
        /\ pc = first.pc
        /\ signals = first.signals
        /\ triggered_signals = first.triggered_signals

\* a second call has returned on a frame on which a signal is emitted
C11_Witness ==
    /\ run = 2 /\ pc = "done"
    /\ first.triggered_signals # <<>>

\* C12: a constant close series yields no signal, whatever lookback_days and
\* whatever the ATR column, an ATR of 0 (rebound threshold 0) included.
Flat(cl) == \A d \in 1 .. Len(cl) : cl[d] = cl[1]
C12_FlatSeriesNoSignal ==
    (pc \in {"scan", "done"} /\ Flat(close)) =>
        /\ triggered_signals = <<>>
        /\ \A k \in 1 .. Len(signals) : ~signals[k]

\* a constant series scanned to its end with an evaluation day whose ATR is 0,
\* on which the trace from the day before ends (a return of 0 reaches the
\* threshold 0) without a decline
C12_Witness ==
    /\ pc = "done" /\ Flat(close) /\ Len(close) > 1
    /\ \E t \in Positions(close) :
           /\ t >= lookback_days
           /\ iloc(atr60, t) = 0
           /\ trace_decline_trend(close, atr60, t - 1, t).term = {t}

\* C13: the driving loop evaluates the days lookback_days .. len(close) - 1,
\* one after the other and no other; no day before lookback_days is marked;
\* on a day t every candidate tried lies in 0 .. t - 1 and every position
\* of close or atr60 that the trace of a candidate reads (the day before the
\* one it tests included) lies in 0 .. t.
C13_Within ==
    pc \in {"scan", "done"} =>
        /\ i >= lookback_days
        /\ i <= Max(lookback_days, Len(close))
        /\ pc = "done" => i >= Len(close)
        /\ \A t \in Positions(signals) : signals[t + 1] => t >= lookback_days
        /\ \A k \in 1 .. Len(tried) :
               /\ tried[k] >= 0 /\ tried[k] < i - 1
               /\ \E r \in {trace_decline_trend(close, atr60, tried[k], i - 1)} :
                      /\ r.closeReads \subseteq 0 .. (i - 1)
                      /\ r.atrReads \subseteq 0 .. (i - 1)
C13_OneDayAtATime ==
    pc = "scan" =>
        \/ i' = i
        \/ i < Len(close) /\ i' = i + 1
C13_ScanBounds == []C13_Within /\ [][C13_OneDayAtATime]_vars

\* the first day evaluated, t = lookback_days, with every candidate from
\* position 0 on tried
C13_Witness ==
    /\ pc = "scan"
    /\ i - 1 = lookback_days
    /\ lookback_days >= 2
    /\ Len(tried) = lookback_days
    /\ tried[1] = 0

\* C14: structurally malformed input raises.  When one of the columns high,
\* low, close is missing, generate_signals raises before any day is scanned
\* and marks nothing; when high, low and close have unequal lengths,
\* calculate_true_range raises and returns no series.
MissingColumn ==
    /\ call.fn = "none"
    /\ \E col \in RequiredColumns : col \notin DOMAIN data.cols
UnequalLengths ==
    /\ call.fn = "calculate_true_range"
    /\ \/ Len(call.high) # Len(call.low)
       \/ Len(call.high) # Len(call.close)
       \/ Len(call.low) # Len(call.close)
C14_NothingDone ==
    /\ MissingColumn =>
           /\ pc \in {"enter", "error"}
           /\ i = 0 /\ tried = <<>>
           /\ signals = <<>> /\ triggered_signals = <<>>
    /\ (UnequalLengths /\ pc = "returned") =>
           out.raised /\ out.value = <<>>
C14_Raises == (MissingColumn /\ pc = "enter") => pc' = "error"
C14_MalformedInput == []C14_NothingDone /\ [][C14_Raises]_vars

\* generate_signals has raised on a frame without its close column
C14_Witness ==
    /\ pc = "error"
    /\ call.fn = "none"
    /\ "close" \notin DOMAIN data.cols

\* C15: value-level malformed input fails fast.  When a close is zero or
\* negative, or the timestamps are not strictly increasing, generate_signals
\* raises before the scan starts and marks nothing.
BadValues ==
    /\ call.fn = "none"
    /\ "close" \in DOMAIN data.cols
    /\ \/ \E d \in 1 .. Len(data.cols["close"]) : data.cols["close"][d] <= 0
       \/ ~StrictlyIncreasing(data.index)
C15_BadValuesFailFast ==
    BadValues =>
        /\ pc \in {"enter", "error"}
        /\ i = 0 /\ tried = <<>>
        /\ signals = <<>> /\ triggered_signals = <<>>

\* what the code does instead: the scan runs to its end on a frame with a
\* close of zero and marks a day
C15_Scanned ==
    /\ BadValues /\ pc = "done"
    /\ \E d \in 1 .. Len(close) : close[d] = 0
    /\ triggered_signals # <<>>

\* C16 as stated: no accepted signal has as its candidate high a day whose
\* ATR is undefined.
C16_AsStated ==
    \A k \in 1 .. Len(accepted_high) : ~isna(iloc(atr60, accepted_high[k]))

\* C16, amended: a day with undefined ATR is skipped as an evaluation day
\* only.  The ATR of a candidate high is not looked at: every signal is
\* emitted on a day with a defined ATR, and its candidate high is accepted
\* just the same were the candidate's own ATR undefined.
C16_CandidateAtrIgnored ==
    pc = "done" =>
        \A k \in 1 .. Len(accepted_high) :
            /\ ~isna(iloc(atr60, triggered_signals[k]))
            /\ CandidateAccepted(close,
                                 [atr60 EXCEPT ![accepted_high[k] + 1] = NaN],
                                 SubSeq(triggered_signals, 1, k - 1),
                                 accepted_high[k], triggered_signals[k])

\* a signal accepted from a candidate high whose own ATR is undefined
C16_Witness ==
    /\ pc = "done"
    /\ \E k \in 1 .. Len(accepted_high) : isna(iloc(atr60, accepted_high[k]))

\* s = sqrt(a / b), and s = 1.0
IsSqrtOf(s, a, b) == ~IsNaNSurd(s) /\ s.sgn >= 0 /\ s.n * b = a * s.d
IsOne(s) == ~IsNaNSurd(s) /\ s.sgn = 1 /\ s.n = s.d

\* the factor the rule gives for a defined ATR a
ByTheRule(a, s) ==
    IF a < AtrLow THEN IsSqrtOf(s, a, AtrLow)
    ELSE IF a > AtrHigh THEN IsSqrtOf(s, a, AtrHigh)
    ELSE IsOne(s)

\* C17: for a defined atr, get_atr_correction_factor returns sqrt(atr / 0.01)
\* below 0.01, sqrt(atr / 0.02) above 0.02 and exactly 1.0 on the band
\* 0.01 <= atr <= 0.02, both ends included; so 0.01 and 0.02 give 1.0,
\* 0.005 gives sqrt(0.5) and 0.03 gives sqrt(1.5).  The same holds for each
\* element of a Series.
C17_CorrectionFactor ==
    (pc = "returned" /\ call.fn = "get_atr_correction_factor") =>
        IF call.series
        THEN \A k \in 1 .. Len(call.atr60) :
                 ~isna(call.atr60[k]) => ByTheRule(call.atr60[k], out.value[k])
        ELSE /\ ~isna(call.atr60) => ByTheRule(call.atr60, out.value)
             /\ call.atr60 \in {100, 200} => IsOne(out.value)
             /\ call.atr60 = 50 => IsSqrtOf(out.value, 1, 2)
             /\ call.atr60 = 300 => IsSqrtOf(out.value, 3, 2)

\* the call on 0.005 has returned a factor below 1
C17_Witness ==
    /\ pc = "returned" /\ call.fn = "get_atr_correction_factor"
    /\ ~call.series /\ call.atr60 = 50
    /\ out.value.n < out.value.d

\* C18: the Series form and the float form of get_atr_correction_factor agree
\* elementwise: element k of the result on a Series s is the result on the
\* float s[k], for every kind of element, an undefined one included.
C18_FormsAgree ==
    (pc = "returned" /\ call.fn = "get_atr_correction_factor"
                     /\ call.series) =>
        \A k \in 1 .. Len(call.atr60) :
            out.value[k] = get_atr_correction_factor(call.atr60[k])

\* where the two forms part: a Series with a NaN element gives NaN there,
\* the float form gives 1.0; on the defined elements they agree
C18_Differ ==
    /\ pc = "returned" /\ call.fn = "get_atr_correction_factor"
    /\ call.series
    /\ \E k \in 1 .. Len(call.atr60) :
           /\ isna(call.atr60[k])
           /\ IsNaNSurd(out.value[k])
           /\ IsOne(get_atr_correction_factor(call.atr60[k]))
    /\ \A k \in 1 .. Len(call.atr60) :
           ~isna(call.atr60[k]) =>
               out.value[k] = get_atr_correction_factor(call.atr60[k])

\* C19: undefined propagates.  On an undefined atr, get_atr_correction_factor
\* and both components of get_adjusted_thresholds are undefined, in the float
\* form and, element by element, in the Series form.
UndefinedOut(a, v) ==
    isna(a) =>
        IF call.fn = "get_atr_correction_factor" THEN IsNaNSurd(v)
        ELSE IsNaNSurd(v.decline) /\ IsNaNSurd(v.rebound)
C19_UndefinedPropagates ==
    (pc = "returned" /\ call.fn \in {"get_atr_correction_factor",
                                     "get_adjusted_thresholds"}) =>
        IF call.series
        THEN \A k \in 1 .. Len(call.atr60) :
                 UndefinedOut(call.atr60[k],
                              IF call.fn = "get_atr_correction_factor"
                              THEN out.value[k]
                              ELSE [decline |-> out.value.decline[k],
                                    rebound |-> out.value.rebound[k]])
        ELSE UndefinedOut(call.atr60, out.value)

\* what the float form returns on NaN: the base thresholds, as for a factor 1
C19_DefinedOnNaN ==
    /\ pc = "returned" /\ call.fn = "get_adjusted_thresholds"
    /\ ~call.series /\ isna(call.atr60)
    /\ out.value.decline = Surd(-1, 1, 400)
    /\ out.value.rebound = Surd(1, 1, 40000)

\* the Series form alone does propagate NaN
C19_SeriesPropagates ==
    (pc = "returned" /\ call.fn = "get_adjusted_thresholds" /\ call.series) =>
        \A k \in 1 .. Len(call.atr60) :
            isna(call.atr60[k]) =>
                /\ IsNaNSurd(out.value.decline[k])
                /\ IsNaNSurd(out.value.rebound[k])

\* C20: get_adjusted_thresholds returns (base_decline * correction,
\* base_rebound * correction); with the defaults -0.05 and 0.005 every defined
\* atr >= 0 gives decline <= 0 and rebound >= 0, and the thresholds of a day
\* are those of its own atr alone: element k on a Series is the pair of the
\* float s[k].
IsProduct(t, r, c) ==
    /\ ~IsNaNSurd(t)
    /\ t.sgn = Sign(r.n) * c.sgn
    /\ t.n * r.d * r.d * c.d = r.n * r.n * c.n * t.d
C20_AdjustedThresholds ==
    (pc = "returned" /\ call.fn = "get_adjusted_thresholds") =>
        IF call.series
        THEN \A k \in 1 .. Len(call.atr60) :
                 ~isna(call.atr60[k]) =>
                     \E th \in {get_adjusted_thresholds(call.atr60[k])} :
                         /\ out.value.decline[k] = th.decline
                         /\ out.value.rebound[k] = th.rebound
        ELSE ~isna(call.atr60) =>
                 \E c \in {get_atr_correction_factor(call.atr60)} :
                     /\ IsProduct(out.value.decline, Ratio(-1, 20), c)
                     /\ IsProduct(out.value.rebound, Ratio(1, 200), c)
                     /\ out.value.decline.sgn <= 0
                     /\ out.value.rebound.sgn >= 0

\* the call on 0.03 has returned thresholds wider than the base ones
C20_Witness ==
    /\ pc = "returned" /\ call.fn = "get_adjusted_thresholds"
    /\ ~call.series /\ call.atr60 = 300
    /\ out.value.decline.sgn = -1
    /\ out.value.decline.n * 400 > out.value.decline.d
    /\ out.value.rebound.n * 40000 > out.value.rebound.d

\* the true range the formula gives for day d >= 1 (0-based) of a call
FormulaTR(d) ==
    Max3(call.high[d + 1] - call.low[d + 1],
         Abs(call.high[d + 1] - call.close[d]),
         Abs(call.low[d + 1] - call.close[d]))

\* C21 as stated: calculate_true_range is undefined on day 0 and on every
\* day t >= 1 equals max(high[t] - low[t], |high[t] - close[t-1]|,
\* |low[t] - close[t-1]|).
C21_TrueRange ==
    (pc = "returned" /\ call.fn = "calculate_true_range" /\ ~out.raised) =>
        /\ isna(out.value[1])
        /\ \A d \in 1 .. Len(out.value) - 1 : out.value[d + 1] = FormulaTR(d)

\* what the code returns: on day 0, where the two distances to the previous
\* close are NaN, the maximum over the defined entries, high[0] - low[0]; on
\* the later days the maximum of the three
C21_DefinedOnDayZero ==
    /\ pc = "returned" /\ call.fn = "calculate_true_range" /\ ~out.raised
    /\ Len(out.value) > 1
    /\ out.value[1] = call.high[1] - call.low[1]
    /\ out.value[1] > 0
    /\ \A d \in 1 .. Len(out.value) - 1 : out.value[d + 1] = FormulaTR(d)

\* C22: calculate_atr(high, low, close, window) is undefined on exactly the
\* first window - 1 days and, on defined positive inputs, defined on every
\* later day, where it is the mean of the last window values of
\* calculate_true_range divided by the close of the day.
C22_RelativeAtr ==
    (pc = "returned" /\ call.fn = "calculate_atr" /\ ~out.raised) =>
        \E ranges \in {calculate_true_range(call.high, call.low,
                                             call.close).value} :
            \A d \in Positions(call.close) :
                \E v \in {iloc(out.value, d)} :
                    IF d < call.window - 1 THEN IsNaNRatio(v)
                    ELSE /\ v.d > 0
                         /\ v.n * call.window * iloc(call.close, d)
                                = SumOver(ranges, d - call.window + 2, d + 1) * v.d

\* a call with 1 < window < length has returned: undefined days first, then
\* defined ones
C22_Witness ==
    /\ pc = "returned" /\ call.fn = "calculate_atr" /\ ~out.raised
    /\ call.window > 1 /\ call.window < Len(call.close)
    /\ IsNaNRatio(out.value[call.window - 1])
    /\ ~IsNaNRatio(out.value[call.window])
    /\ ~IsNaNRatio(out.value[Len(call.close)])

\* C23 as stated: the first window values of the output of calculate_atr
\* (positions 0 .. window - 1) are undefined.
C23_FirstWindowUndefined ==
    (pc = "returned" /\ call.fn = "calculate_atr" /\ ~out.raised) =>
        \A d \in Positions(call.close) :
            d <= call.window - 1 => IsNaNRatio(iloc(out.value, d))

\* what the code returns: position window - 1, the day on which the first
\* window (which holds the defined true range of day 0) is full, is defined
C23_DefinedAtWindowEnd ==
    /\ pc = "returned" /\ call.fn = "calculate_atr" /\ ~out.raised
    /\ call.window <= Len(call.close)
    /\ ~IsNaNRatio(iloc(out.value, call.window - 1))
    /\ \A d \in 0 .. call.window - 2 : IsNaNRatio(iloc(out.value, d))

\* C24: the two implementations of the detector do the same.  On every
\* DataFrame with the columns close, high, low and atr60 and for every
\* lookback_days, generate_signals returns the series that
\* Strategy1Definitions.correct_decline_rebound_strategy returns, and the two
\* _trace_decline_trend return the same TrendResult for every pair
\* (high_idx, current_idx).
C24_SameDetector ==
    (pc = "done" /\ run = 1 /\ \A col \in AllColumns : col \in DOMAIN data.cols)
        =>
        /\ \E other \in {correct_decline_rebound_strategy(data, lookback_days)} :
               ~other.raised /\ other.value = signals
        /\ \A h \in Positions(close) : \A cur \in Positions(close) :
               trace_decline_trend(close, atr60, h, cur).result
                   = S1_trace_decline_trend(close, atr60, h, cur)

\* generate_signals has returned a series with a mark, on a frame with all
\* four columns
C24_Witness ==
    /\ pc = "done" /\ run = 1
    /\ \A col \in AllColumns : col \in DOMAIN data.cols
    /\ triggered_signals # <<>>
    /\ correct_decline_rebound_strategy(data, lookback_days).value = signals

\* C25: the refactoring of the triangle breakout keeps its behaviour.  On the
\* same data, generate_signals of factors/triangle_breakout.py with the
\* 'basic' preset of the config returns the series that
\* Strategy3Definitions.get_strategy_signals()['triangle_breakout_basic']
\* holds: same length, same index, same value on every day.
C25_RefactoringEquivalent ==
    verify.at \in {"new", "compared"} =>
        /\ Len(verify.signals_new.values) = Len(verify.signals_old.values)
        /\ verify.signals_new.index = verify.signals_old.index
        /\ \A d \in 1 .. Len(verify.signals_old.values) :
               verify.signals_new.values[d] = verify.signals_old.values[d]
        /\ verify.at = "compared" => verify.result

\* both versions have run on data with a breakout out of a narrowing range,
\* and both mark it
C25_Witness ==
    /\ verify.at = "compared"
    /\ \E d \in 1 .. Len(verify.signals_old.values) :
           verify.signals_old.values[d] /\ verify.signals_new.values[d]

ResultKeys ==
    {"performance_results", "stats_summary", "total_signals",
     "holding_periods"}

\* C26: analyze_signals(data, signals, holding_periods, direction) returns a
\* mapping with the keys performance_results, stats_summary, total_signals
\* and holding_periods, and total_signals is the number of entries of
\* performance_results.
C26_ResultStructure ==
    (pc = "returned" /\ call.fn = "analyze_signals" /\ ~out.raised) =>
        /\ ResultKeys \subseteq DOMAIN out.value
        /\ out.value.total_signals = Len(out.value.performance_results)

\* analyze_signals has returned the four keys for a signal with enough days
\* after it, one result per such signal
C26_FullResult ==
    /\ pc = "returned" /\ call.fn = "analyze_signals"
    /\ ResultKeys \subseteq DOMAIN out.value
    /\ out.value.total_signals = 2
    /\ Len(out.value.performance_results) = 2

\* the trace from h is valid and ends on day t
EndsAt(h, t) ==
    /\ h < t
    /\ \E r \in {trace_decline_trend(close, atr60, h, t).result} :
           r.is_valid /\ r.ends_today

\* the mark of day t decided from the prices alone, with an empty log of
\* earlier signals
MarkedWithEmptyLog(t) ==
    CandidateLoop(close, atr60, <<>>, lookback_start(t, lookback_days), t,
                  <<>>).accepted # <<>>

\* C27: the no-overlap check never rejects a candidate.  Whenever the trace
\* from a candidate h is valid and ends on day t, no signal emitted so far
\* lies strictly between h and t; and every evaluation day is marked exactly
\* when it would be with the log of earlier signals empty, so the decision of
\* a day does not depend on the earlier decisions.
C27_LogNeverRejects ==
    /\ [](\A k \in 1 .. Len(triggered_signals) :
              \A h \in Positions(close) : \A t \in Positions(close) :
                  (h < triggered_signals[k] /\ triggered_signals[k] < t)
                      => ~EndsAt(h, t))
    /\ [][(pc = "scan" /\ i' = i + 1 /\ ~isna(iloc(atr60, i)))
              => (signals'[i + 1] <=> MarkedWithEmptyLog(i))]_vars

\* a day is marked after an earlier signal: the accepted trace starts on or
\* after the earlier signal day
C27_Witness ==
    /\ Len(triggered_signals) >= 2
    /\ EndsAt(accepted_high[2], triggered_signals[2])
    /\ triggered_signals[1] <= accepted_high[2]
    /\ MarkedWithEmptyLog(triggered_signals[2])

\* C28: the rebound test of the scan is implied by the trace.  Whenever
\* _trace_decline_trend(h, t) returns is_valid and ends_today,
\* (close[t] - bottom_price) / bottom_price >= rebound_threshold(t) holds
\* already, so rebound_ok never rejects a candidate.
C28_ReboundImplied ==
    (pc = "idle" /\ tr.pc = "returned"
        /\ tr.result.is_valid /\ tr.result.ends_today) =>
        RatGe(Ratio(iloc(close, current_idx) - tr.result.bottom_price,
                    tr.result.bottom_price),
              get_adjusted_thresholds(iloc(atr60, current_idx)).rebound)

\* a trace has ended today with its bottom below the close of the day before,
\* on a daily return that just meets the threshold of the day
C28_Witness ==
    /\ pc = "idle" /\ tr.pc = "returned"
    /\ tr.result.is_valid /\ tr.result.ends_today
    /\ tr.result.bottom_price < iloc(close, current_idx - 1)
    /\ iloc(close, current_idx) = 201
    /\ iloc(atr60, current_idx) = 150

\* C29: the order inside every valid trace result.  A TrendResult with
\* is_valid has high_idx < bottom_idx < termination day <= current_idx;
\* bottom_price is the minimum of close[high_idx .. termination day] and
\* bottom_idx the earliest day with that close; high_price is
\* close[high_idx] and lies above bottom_price.
C29_TraceOrdering ==
    (pc = "idle" /\ tr.pc = "returned" /\ tr.result.is_valid) =>
        \E last \in tr.term :
            /\ tr.result.high_idx = high_idx
            /\ high_idx < tr.result.bottom_idx
            /\ tr.result.bottom_idx < last
            /\ last <= current_idx
            /\ tr.result.bottom_price = iloc(close, tr.result.bottom_idx)
            /\ \A d \in high_idx .. last :
                   /\ tr.result.bottom_price <= iloc(close, d)
                   /\ d < tr.result.bottom_idx =>
                          tr.result.bottom_price < iloc(close, d)
            /\ tr.result.high_price = iloc(close, high_idx)
            /\ tr.result.high_price > tr.result.bottom_price

\* a valid trace whose lowest close is met on two days before it ends
C29_Witness ==
    /\ pc = "idle" /\ tr.pc = "returned" /\ tr.result.is_valid
    /\ \E d \in (tr.result.bottom_idx + 1) .. current_idx :
           /\ tr.term = {d + 1}
           /\ iloc(close, d) = tr.result.bottom_price

\* some candidate of the window of day t passes all the checks against the
\* log of earlier signals
SomeCandidatePasses(t) ==
    \E h \in lookback_start(t, lookback_days) .. t - 1 :
        CandidateAccepted(close, atr60, triggered_signals, h, t)

\* C30: the marks do not depend on the order in which the candidates of a
\* day are tried.  An evaluated day is marked exactly when at least one
\* candidate of its window passes all the checks, which is also what trying
\* the candidates newest first, or trying all of them without the break,
\* decides.
C30_OrderIndependent ==
    [][(pc = "scan" /\ i' = i + 1 /\ ~isna(iloc(atr60, i))) =>
        /\ signals'[i + 1] <=> SomeCandidatePasses(i)
        /\ signals'[i + 1] <=>
              CandidateLoopNewestFirst(
                  close, atr60, triggered_signals,
                  lookback_start(i, lookback_days), i, <<>>).accepted # <<>>
        /\ signals'[i + 1] <=>
              CandidateLoopNoBreak(
                  close, atr60, triggered_signals,
                  lookback_start(i, lookback_days), i, <<>>).accepted # <<>>
      ]_vars

\* a day has been marked for a candidate that is neither the oldest nor the
\* newest of its window, after an older candidate was turned down
C30_Witness ==
    /\ pc = "scan" /\ i >= 1
    /\ iloc(signals, i - 1)
    /\ Len(tried) >= 2
    /\ tried[Len(tried)] < i - 2

====
